---------------------------- MODULE Spec2Model ----------------------------
(***************************************************************************)
(* A model of tensor_visualizer.py: the encoder tensor_to_json (source     *)
(* normalisation, axis permutation, dtype mapping, byte shuffle, zlib,     *)
(* base64, envelope), apply_permute, and the TensorVisualizer widget's     *)
(* constructor and custom-message handler.                                 *)
(*                                                                         *)
(* Conventions.  A Python reference that may be None is a sequence of      *)
(* length 0 (None) or 1 (the object).  A byte is a number in 0..255, a     *)
(* bytes object a sequence of bytes, an array element the sequence of the  *)
(* bytes it occupies in memory (little endian).  An ndarray is a dtype, a  *)
(* shape, strides (counted in elements) and the buffer the strides index.  *)
(***************************************************************************)
EXTENDS Integers, Sequences, FiniteSets, TLC

(***************************************************************************)
(* Bounds of the model.                                                    *)
(***************************************************************************)
MaxRank == 2
MaxDim == 2
NumThreads == 2
MaxMsgs == 3
MaxLen == 2

None == << >>
Some(v) == << v >>
IsNone(o) == Len(o) = 0
Get(o) == o[1]

Min(a, b) == IF a < b THEN a ELSE b

RECURSIVE Pow2(_)
Pow2(n) == IF n = 0 THEN 1 ELSE 2 * Pow2(n - 1)

RECURSIVE SeqsUpTo(_, _)
SeqsUpTo(S, n) ==
    IF n = 0 THEN { << >> }
    ELSE LET shorter == SeqsUpTo(S, n - 1)
         IN  shorter \cup { Append(s, x) : s \in { t \in shorter : Len(t) = n - 1 }, x \in S }

SeqsOfLen(S, n) == { s \in SeqsUpTo(S, n) : Len(s) = n }

Range(s) == { s[i] : i \in 1..Len(s) }

(***************************************************************************)
(* numpy dtypes: the eight keys of dtype_mapping and two that are not.     *)
(***************************************************************************)
SupportedDtypes ==
    { "float16", "float32", "float64", "int8", "uint8", "int16", "int32", "int64" }

Dtypes == SupportedDtypes \cup { "complex64", "bool" }

ItemSize(dt) ==
    CASE dt \in { "int8", "uint8", "bool" } -> 1
      [] dt \in { "float16", "int16" } -> 2
      [] dt \in { "float32", "int32" } -> 4
      [] dt \in { "float64", "int64", "complex64" } -> 8

\* Mutant: the float16 entry keeps the stride of the source element
DtypeMappingTableHalfStride ==
    [ dt \in SupportedDtypes |->
        [ target_dtype |-> IF dt = "float16" THEN "float32" ELSE dt,
          dtype |-> IF dt = "float16" THEN "float32" ELSE dt,
          compression |-> "zlib",
          shuffle |-> IF ItemSize(dt) = 1 THEN None ELSE Some(ItemSize(dt)) ] ]

\* dtype_mapping: source dtype -> (target_dtype, dtype, compression, shuffle)
DtypeMappingTable ==
    [ dt \in SupportedDtypes |->
        CASE dt = "float16" -> [target_dtype |-> "float32", dtype |-> "float32", compression |-> "zlib", shuffle |-> Some(4)]
          [] dt = "float32" -> [target_dtype |-> "float32", dtype |-> "float32", compression |-> "zlib", shuffle |-> Some(4)]
          [] dt = "float64" -> [target_dtype |-> "float64", dtype |-> "float64", compression |-> "zlib", shuffle |-> Some(8)]
          [] dt = "int8"    -> [target_dtype |-> "int8",    dtype |-> "int8",    compression |-> "zlib", shuffle |-> None]
          [] dt = "uint8"   -> [target_dtype |-> "uint8",   dtype |-> "uint8",   compression |-> "zlib", shuffle |-> None]
          [] dt = "int16"   -> [target_dtype |-> "int16",   dtype |-> "int16",   compression |-> "zlib", shuffle |-> Some(2)]
          [] dt = "int32"   -> [target_dtype |-> "int32",   dtype |-> "int32",   compression |-> "zlib", shuffle |-> Some(4)]
          [] dt = "int64"   -> [target_dtype |-> "int64",   dtype |-> "int64",   compression |-> "zlib", shuffle |-> Some(8)] ]

(***************************************************************************)
(* ndarray: shape, strides and buffer.                                     *)
(***************************************************************************)
RECURSIVE Prod(_)
Prod(s) == IF Len(s) = 0 THEN 1 ELSE Head(s) * Prod(Tail(s))

Size(shape) == Prod(shape)

\* C-contiguous strides, in elements: stride[k] = shape[k+1] * ... * shape[n]
ContiguousStrides(shape) ==
    [ k \in 1..Len(shape) |-> Prod(SubSeq(shape, k + 1, Len(shape))) ]

\* The multi-index (0-based entries) of the f-th element (0-based) in C order.
Unravel(f, shape) ==
    [ k \in 1..Len(shape) |->
        (f \div Prod(SubSeq(shape, k + 1, Len(shape)))) % shape[k] ]

RECURSIVE Dot(_, _)
Dot(a, b) == IF Len(a) = 0 THEN 0 ELSE Head(a) * Head(b) + Dot(Tail(a), Tail(b))

NdArray(dt, shape, buf) ==
    [ dtype |-> dt, shape |-> shape, strides |-> ContiguousStrides(shape), buf |-> buf ]

\* a[idx] for a multi-index idx of 0-based entries
Item(a, idx) == a.buf[Dot(idx, a.strides) + 1]

\* ndarray.flatten(): a fresh one-dimensional copy in C (row-major) order
Flatten(a) ==
    [ f \in 1..Size(a.shape) |-> Item(a, Unravel(f - 1, a.shape)) ]

\* np.transpose(a, axes) accepts axes that are a permutation of 0..ndim-1
TransposeOk(a, axes) ==
    /\ Len(axes) = Len(a.shape)
    /\ \A k \in 1..Len(axes) : axes[k] \in 0..(Len(a.shape) - 1)
    /\ \A k, l \in 1..Len(axes) : axes[k] = axes[l] => k = l

\* np.transpose(a, axes): a view with shape and strides permuted
Transpose(a, axes) ==
    [ dtype |-> a.dtype,
      shape |-> [ k \in 1..Len(axes) |-> a.shape[axes[k] + 1] ],
      strides |-> [ k \in 1..Len(axes) |-> a.strides[axes[k] + 1] ],
      buf |-> a.buf ]

(***************************************************************************)
(* ndarray.astype: element conversion.  Every entry of dtype_mapping but   *)
(* float16 maps a dtype to itself, and the cast copies the element's       *)
(* bytes; float16 is widened to float32 bit by bit, as numpy's             *)
(* npy_halfbits_to_floatbits does.                                         *)
(***************************************************************************)
\* The bytes (little endian) of the float32 with sign s, exponent field e, fraction m
FloatBytes(s, e, m) ==
    << m % 256, (m \div 256) % 256, (e % 2) * 128 + m \div 65536, s * 128 + e \div 2 >>

\* Subnormal half: shift the fraction left until its leading bit reaches bit 10
RECURSIVE HalfNormalize(_, _)
HalfNormalize(sig, shifts) ==
    IF sig >= 1024 THEN [sig |-> sig, shifts |-> shifts]
    ELSE HalfNormalize(sig * 2, shifts + 1)

HalfToFloat(el) ==
    LET s == el[2] \div 128
        e == (el[2] % 128) \div 4
        sig == (el[2] % 4) * 256 + el[1]
    IN  IF e = 0
        THEN IF sig = 0 THEN FloatBytes(s, 0, 0)
             ELSE LET nz == HalfNormalize(sig * 2, 0)
                  IN  FloatBytes(s, 127 - 15 - nz.shifts, (nz.sig % 1024) * 8192)
        ELSE IF e = 31 THEN FloatBytes(s, 255, sig * 8192)
        ELSE FloatBytes(s, e + 112, sig * 8192)

CastElement(el, from, to) ==
    IF from = to THEN el
    ELSE IF from = "float16" /\ to = "float32" THEN HalfToFloat(el)
    ELSE el

\* Mutant: the cast lays the result out afresh in C order without moving the elements
AstypeContiguous(a, target) ==
    [ dtype |-> target,
      shape |-> a.shape,
      strides |-> ContiguousStrides(a.shape),
      buf |-> [ i \in 1..Len(a.buf) |-> CastElement(a.buf[i], a.dtype, target) ] ]

\* a.astype(target): a new array of the same shape and (order 'K') layout
Astype(a, target) ==
    [ dtype |-> target,
      shape |-> a.shape,
      strides |-> a.strides,
      buf |-> [ i \in 1..Len(a.buf) |-> CastElement(a.buf[i], a.dtype, target) ] ]

\* ndarray.tobytes() of a one-dimensional array: its elements' bytes, one after another
ToBytes(elems) ==
    LET size == IF Len(elems) = 0 THEN 1 ELSE Len(elems[1])
    IN  [ b \in 1..(Len(elems) * size) |-> elems[((b - 1) \div size) + 1][((b - 1) % size) + 1] ]

(***************************************************************************)
(* The byte shuffle: np.frombuffer(b, np.byte).reshape(-1, s).T.flatten()  *)
(***************************************************************************)
\* reshape(-1, s) needs the length to be a multiple of s
ReshapeOk(bytes, s) == Len(bytes) % s = 0

\* Mutant: the reshaped grid is flattened without the transpose
ShuffleBytesNoTranspose(bytes, s) ==
    Flatten(NdArray("int8", << Len(bytes) \div s, s >>, bytes))

ShuffleBytes(bytes, s) ==
    LET grid == NdArray("int8", << Len(bytes) \div s, s >>, bytes)
        gridT == Transpose(grid, << 1, 0 >>)
    IN  Flatten(gridT)

(***************************************************************************)
(* zlib.compress(b, level=Z_BEST_SPEED).  The deflate stream is modelled   *)
(* in its stored-block form: header 78 01, one final stored block (LEN,    *)
(* its complement, the bytes) and the Adler-32 checksum of the bytes.      *)
(***************************************************************************)
AdlerMod == 65521

\* w[lo] + ... + w[hi]
RECURSIVE SumRange(_, _, _)
SumRange(w, lo, hi) ==
    IF lo > hi THEN 0
    ELSE IF lo = hi THEN w[lo]
    ELSE SumRange(w, lo, (lo + hi) \div 2) + SumRange(w, ((lo + hi) \div 2) + 1, hi)

\* Adler-32: a starts at 1, b at 0, and each byte does a = a + byte, b = b + a
\* (mod 65521); so a = 1 + the sum of the bytes, and b, the sum of the values
\* a takes, counts the i-th of n bytes n - i + 1 times
Adler32Bytes(bytes) ==
    LET n == Len(bytes)
        a == (1 + SumRange(bytes, 1, n)) % AdlerMod
        b == (n + SumRange([ i \in 1..n |-> (n - i + 1) * bytes[i] ], 1, n)) % AdlerMod
    IN  << b \div 256, b % 256, a \div 256, a % 256 >>

ZlibCompress(bytes) ==
    LET n == Len(bytes)
    IN  << 120, 1 >>
        \o << 1, n % 256, n \div 256, 255 - (n % 256), 255 - (n \div 256) >>
        \o bytes
        \o Adler32Bytes(bytes)

(***************************************************************************)
(* base64.b64encode(b).decode("ascii")                                     *)
(***************************************************************************)
B64Alphabet ==
    << "A", "B", "C", "D", "E", "F", "G", "H", "I", "J", "K", "L", "M",
       "N", "O", "P", "Q", "R", "S", "T", "U", "V", "W", "X", "Y", "Z",
       "a", "b", "c", "d", "e", "f", "g", "h", "i", "j", "k", "l", "m",
       "n", "o", "p", "q", "r", "s", "t", "u", "v", "w", "x", "y", "z",
       "0", "1", "2", "3", "4", "5", "6", "7", "8", "9", "+", "/" >>

B64Char(v) == B64Alphabet[v + 1]

\* One group of 1, 2 or 3 bytes becomes 4 characters, padded with "="
B64Group(g) ==
    LET b1 == g[1]
        b2 == IF Len(g) >= 2 THEN g[2] ELSE 0
        b3 == IF Len(g) >= 3 THEN g[3] ELSE 0
    IN  << B64Char(b1 \div 4),
           B64Char((b1 % 4) * 16 + b2 \div 16),
           IF Len(g) >= 2 THEN B64Char((b2 % 16) * 4 + b3 \div 64) ELSE "=",
           IF Len(g) >= 3 THEN B64Char(b3 % 64) ELSE "=" >>

B64Encode(bytes) ==
    LET ngroups == (Len(bytes) + 2) \div 3
        groups == [ k \in 1..ngroups |->
                      B64Group(SubSeq(bytes, 3 * k - 2, Min(3 * k, Len(bytes)))) ]
    IN  [ c \in 1..(4 * ngroups) |-> groups[((c - 1) \div 4) + 1][((c - 1) % 4) + 1] ]

(***************************************************************************)
(* The arguments the model calls tensor_to_json with.  An element is drawn *)
(* from a palette of bit patterns of its dtype; an array of n elements     *)
(* holds the palette's patterns in order, cyclically.                      *)
(***************************************************************************)
Palette(dt) ==
    CASE dt = "float16" ->
           << << 0, 60 >>, << 0, 192 >>, << 1, 0 >>, << 255, 123 >>, << 85, 53 >>,
              << 255, 3 >>, << 0, 0 >>, << 0, 128 >>, << 0, 124 >>, << 0, 252 >>, << 0, 126 >> >>
      [] dt = "float32" ->
           << << 0, 0, 128, 63 >>, << 0, 0, 0, 192 >>, << 219, 15, 73, 64 >>,
              << 1, 0, 0, 0 >>, << 0, 0, 128, 127 >> >>
      [] dt = "float64" ->
           << << 0, 0, 0, 0, 0, 0, 240, 63 >>, << 24, 45, 68, 84, 251, 33, 9, 64 >>,
              << 0, 0, 0, 0, 0, 0, 0, 128 >>, << 1, 0, 0, 0, 0, 0, 0, 0 >>,
              << 255, 255, 255, 255, 255, 255, 239, 127 >> >>
      [] dt \in { "int8", "uint8" } ->
           << << 1 >>, << 255 >>, << 128 >>, << 127 >>, << 0 >> >>
      [] dt = "int16" ->
           << << 1, 0 >>, << 0, 1 >>, << 255, 255 >>, << 0, 128 >>, << 52, 18 >> >>
      [] dt = "int32" ->
           << << 1, 0, 0, 0 >>, << 120, 86, 52, 18 >>, << 255, 255, 255, 255 >>,
              << 0, 0, 0, 128 >>, << 0, 0, 1, 0 >> >>
      [] dt = "int64" ->
           << << 1, 0, 0, 0, 0, 0, 0, 0 >>, << 239, 205, 171, 137, 103, 69, 35, 1 >>,
              << 255, 255, 255, 255, 255, 255, 255, 255 >>, << 0, 0, 0, 0, 0, 0, 0, 128 >>,
              << 0, 0, 0, 0, 1, 0, 0, 0 >> >>
      [] dt = "complex64" ->
           << << 0, 0, 128, 63, 0, 0, 0, 64 >>, << 0, 0, 0, 0, 0, 0, 128, 191 >> >>
      [] dt = "bool" ->
           << << 1 >>, << 0 >> >>

Elements(dt, n) ==
    [ i \in 1..n |-> Palette(dt)[((i - 1) % Len(Palette(dt))) + 1] ]

\* Shapes of rank 0..MaxRank with dimensions 1..MaxDim, and two empty arrays
Shapes == SeqsUpTo(1..MaxDim, MaxRank) \cup { << 0 >>, << 2, 0 >> }

\* One array per dtype holds its whole palette
Arrays ==
    { NdArray(dt, shape, Elements(dt, Size(shape))) : dt \in Dtypes, shape \in Shapes }
    \cup { NdArray(dt, << Len(Palette(dt)) >>, Palette(dt)) : dt \in Dtypes }

IdentityAxes(n) == [ k \in 1..n |-> k - 1 ]

\* permute arguments tried on an array of rank n: None, every sequence of n
\* axes below n (the permutations and the sequences that repeat an axis),
\* an axis out of range, and sequences one shorter and one longer
Permutes(n) ==
    { None }
    \cup { Some(p) : p \in SeqsOfLen(0..(n - 1), n) }
    \cup { Some(IdentityAxes(n + 1)) }
    \cup (IF n >= 1 THEN { Some(IdentityAxes(n - 1)), Some([ k \in 1..n |-> k ]) } ELSE { })

\* What the caller passes as tensor: None, an ndarray, a tensor of a loaded
\* library (torch, mlx, tensorflow) or any other object (here a list)
LibraryKinds == { "torch", "mlx", "tensorflow" }

Objects ==
    { [kind |-> "ndarray", arr |-> a] : a \in Arrays }
    \cup { [kind |-> k, arr |-> NdArray(dt, << 2 >>, Elements(dt, 2))] :
             k \in LibraryKinds \cup { "list" }, dt \in { "float16", "int64", "complex64" } }

Args ==
    { [input |-> None, permute |-> p] : p \in { None, Some(<< 1, 0 >>) } }
    \cup UNION { { [input |-> Some(o), permute |-> p] : p \in Permutes(Len(o.arr.shape)) } :
                   o \in Objects }

(***************************************************************************)
(* tensor_to_numpy                                                         *)
(***************************************************************************)
\* Whether tensor_to_numpy returns (it raises ValueError otherwise)
IsTensorLike(obj) == obj.kind \in LibraryKinds \cup { "ndarray" }

\* The ndarray it returns: the object itself, or the library tensor's data
TensorToNumpy(obj) == obj.arr

(***************************************************************************)
(* Outcomes of a call: a returned value (an envelope, or None) or a raised *)
(* ValueError with its message.                                            *)
(***************************************************************************)
Returned(v) == [kind |-> "returned", value |-> v, error |-> ""]
Raised(msg) == [kind |-> "raised", value |-> None, error |-> msg]
Pending == [kind |-> "pending", value |-> None, error |-> ""]

ErrInput == "expect input to be numpy array or torch tensor"
ErrPermute == "permute must be the same length as the tensor's shape"
ErrAxes == "axes don't match array"
ErrDtype == "unsupported dtype"
ErrReshape == "cannot reshape array"

Envelope(shape, compression, shuffle, dtype, data) ==
    [ shape |-> shape, compression |-> compression, shuffle |-> shuffle,
      dtype |-> dtype, data |-> data ]

(***************************************************************************)
(* tensor_to_json as one call: what a caller that does not interleave with *)
(* other calls gets from the table it finds.                               *)
(***************************************************************************)
EncodeArray(a, table) ==
    IF a.dtype \notin DOMAIN table THEN Raised(ErrDtype)
    ELSE LET e == table[a.dtype]
             raw == ToBytes(Flatten(Astype(a, e.target_dtype)))
         IN  IF ~IsNone(e.shuffle) /\ ~ReshapeOk(raw, Get(e.shuffle)) THEN Raised(ErrReshape)
             ELSE LET shuffled == IF IsNone(e.shuffle) THEN raw
                                  ELSE ShuffleBytes(raw, Get(e.shuffle))
                      packed == IF e.compression = "zlib" THEN ZlibCompress(shuffled)
                                ELSE shuffled
                  IN  Returned(Some(Envelope(a.shape, e.compression, e.shuffle, e.dtype,
                                             B64Encode(packed))))

TensorToJson(input, permute, table) ==
    IF IsNone(input) THEN Returned(None)
    ELSE IF ~IsTensorLike(Get(input)) THEN Raised(ErrInput)
    ELSE LET a == TensorToNumpy(Get(input))
         IN  IF IsNone(permute) THEN EncodeArray(a, table)
             ELSE IF Len(Get(permute)) # Len(a.shape) THEN Raised(ErrPermute)
             ELSE IF ~TransposeOk(a, Get(permute)) THEN Raised(ErrAxes)
             ELSE EncodeArray(Transpose(a, Get(permute)), table)

(***************************************************************************)
(* apply_permute                                                           *)
(***************************************************************************)
\* Mutant: positions whose index is missing from the list are left out
ApplyPermuteDropMissing(array, permute) ==
    IF IsNone(array) THEN None
    ELSE LET present == SelectSeq(permute, LAMBDA i : i < Len(Get(array)))
         IN  Some([ k \in 1..Len(present) |-> Get(array)[present[k] + 1] ])

\* [array[i] if i < len(array) else None for i in permute]; the entries of a
\* list are references, None or an object
ApplyPermute(array, permute) ==
    IF IsNone(array) THEN None
    ELSE Some([ k \in 1..Len(permute) |->
                  IF permute[k] < Len(Get(array)) THEN Get(array)[permute[k] + 1] ELSE None ])

(***************************************************************************)
(* Custom messages.  A dict maps a key to nothing (a sequence of length 0) *)
(* or to a value (length 1); the value is a reference, None for null.      *)
(***************************************************************************)
Absent == << >>
Present(v) == << v >>
HasKey(f) == Len(f) = 1
\* dict.get(key)
DictGet(f) == IF HasKey(f) THEN f[1] ELSE None

Content(type, name, scale) == [type |-> type, name |-> name, scale |-> scale]
ScaleDict(domain, type, scheme) == [domain |-> domain, type |-> type, scheme |-> scheme]

ScaleDicts ==
    { ScaleDict(d, ty, sc) :
        d \in { Absent, Present(None), Present(Some(<< 0, 1 >>)) },
        ty \in { Absent, Present(Some("log")) },
        sc \in { Absent, Present(Some("viridis")) } }

Messages ==
    { Content(Absent, Absent, Absent), Content(Present(Some("other")), Absent, Absent),
      Content(Present(None), Present(Some("tensor")), Absent) }
    \cup { Content(Present(Some("prop")), n, Absent) :
             n \in { Absent, Present(Some("tensor")), Present(Some("names")) } }
    \cup { Content(Present(Some("scale")), Absent, Absent) }
    \cup { Content(Present(Some("scale")), Absent, Present(Some(d))) : d \in ScaleDicts }

(***************************************************************************)
(* The arguments the model constructs the widget with.                     *)
(***************************************************************************)
AxisNames == << "x", "y", "z", "w", "v" >>
NamesOf(n) == Some([ k \in 1..n |-> Some(AxisNames[k]) ])
LabelsOf(n) == Some([ k \in 1..n |-> Some(<< AxisNames[k], "b" >>) ])
ViewsOf(n) == Some([ k \in 1..n |-> Some(IF k % 2 = 1 THEN "slice" ELSE "mean") ])

Metadata ==
    { [names |-> NamesOf(n), labels |-> LabelsOf(m), default_views |-> ViewsOf(n)] :
        n \in 0..MaxLen, m \in { 1, MaxLen } }
    \cup { [names |-> None, labels |-> LabelsOf(1), default_views |-> None],
           [names |-> NamesOf(MaxLen + 1), labels |-> None, default_views |-> ViewsOf(1)] }

ScaleArgs ==
    { [scale_domain |-> None, scale_type |-> None, scale_scheme |-> None],
      [scale_domain |-> Some(<< 0, 1 >>), scale_type |-> Some("log"),
       scale_scheme |-> Some("viridis")] }

WidgetTensors ==
    { [tensor |-> None, permute |-> None],
      [tensor |-> None, permute |-> Some(<< 1, 0 >>)] }
    \cup { [tensor |-> Some([kind |-> "ndarray",
                             arr |-> NdArray("float32", << 1, 2 >>, Elements("float32", 2))]),
            permute |-> p] :
             p \in { None, Some(<< 1, 0 >>), Some(<< 0, 1 >>), Some(<< 0 >>) } }
    \cup { [tensor |-> Some([kind |-> "torch",
                             arr |-> NdArray("int8", << 2 >>, Elements("int8", 2))]),
            permute |-> Some(<< 0 >>)],
           [tensor |-> Some([kind |-> "ndarray",
                             arr |-> NdArray("complex64", << 2 >>, Elements("complex64", 2))]),
            permute |-> None] }

CtorArgs ==
    { [tensor |-> tp.tensor, permute |-> tp.permute,
       names |-> md.names, labels |-> md.labels, default_views |-> md.default_views,
       scale_domain |-> sa.scale_domain, scale_type |-> sa.scale_type,
       scale_scheme |-> sa.scale_scheme] :
        tp \in WidgetTensors, md \in Metadata, sa \in ScaleArgs }

Threads == 1..NumThreads

VARIABLES
    dtype_mapping,  \* the module-level table, shared by every call
    calls,          \* calls[t]: the tensor_to_json call of thread t
    widget,         \* the TensorVisualizer once constructed, None before
    ctor,           \* the constructor's arguments and outcome once it was called
    sent,           \* the messages the widget passed to self.send, in order
    encodes,        \* how many times the widget has called tensor_to_json
    requests,       \* how many property-read requests for the tensor arrived
    last_scale,     \* the most recent message of type "scale" delivered
    handled         \* how the last _handle_custom_msg ended

shell == << widget, ctor, sent, encodes, requests, last_scale, handled >>

vars == << dtype_mapping, calls, shell >>

NoCall ==
    [ pc |-> "idle", input |-> None, permute |-> None, arr |-> None,
      entry |-> None, binary_data |-> << >>, outcome |-> Pending ]

NewCall(args) ==
    [ NoCall EXCEPT !.pc = "start", !.input = args.input, !.permute = args.permute ]

Finish(c, outcome) == [ c EXCEPT !.pc = "done", !.outcome = outcome ]

(***************************************************************************)
(* tensor_to_json, one action per statement                                *)
(***************************************************************************)
\* if input is None: return None;  input = tensor_to_numpy(input)
Normalize(t) ==
    LET c == calls[t] IN
    /\ c.pc = "start"
    /\ calls' = [ calls EXCEPT ![t] =
         IF IsNone(c.input) THEN Finish(c, Returned(None))
         ELSE IF ~IsTensorLike(Get(c.input)) THEN Finish(c, Raised(ErrInput))
         ELSE [ c EXCEPT !.pc = "permute", !.arr = Some(TensorToNumpy(Get(c.input))) ] ]
    /\ UNCHANGED << dtype_mapping, shell >>

\* Mutant: the dtype is looked up before the length of permute is checked
PermuteAfterDtype(t) ==
    LET c == calls[t]
        a == Get(c.arr)
    IN
    /\ c.pc = "permute"
    /\ calls' = [ calls EXCEPT ![t] =
         IF a.dtype \notin DOMAIN dtype_mapping THEN Finish(c, Raised(ErrDtype))
         ELSE IF IsNone(c.permute) THEN [ c EXCEPT !.pc = "lookup" ]
         ELSE IF Len(Get(c.permute)) # Len(a.shape) THEN Finish(c, Raised(ErrPermute))
         ELSE IF ~TransposeOk(a, Get(c.permute)) THEN Finish(c, Raised(ErrAxes))
         ELSE [ c EXCEPT !.pc = "lookup", !.arr = Some(Transpose(a, Get(c.permute))) ] ]
    /\ UNCHANGED << dtype_mapping, shell >>

\* if permute is not None: check the length, input = np.transpose(input, permute)
Permute(t) ==
    LET c == calls[t]
        a == Get(c.arr)
    IN
    /\ c.pc = "permute"
    /\ calls' = [ calls EXCEPT ![t] =
         IF IsNone(c.permute) THEN [ c EXCEPT !.pc = "lookup" ]
         ELSE IF Len(Get(c.permute)) # Len(a.shape) THEN Finish(c, Raised(ErrPermute))
         ELSE IF ~TransposeOk(a, Get(c.permute)) THEN Finish(c, Raised(ErrAxes))
         ELSE [ c EXCEPT !.pc = "lookup", !.arr = Some(Transpose(a, Get(c.permute))) ] ]
    /\ UNCHANGED << dtype_mapping, shell >>

\* Mutant: a dtype missing from the table is sent as raw float32 words
LookupDefault(t) ==
    LET c == calls[t]
        a == Get(c.arr)
    IN
    /\ c.pc = "lookup"
    /\ calls' = [ calls EXCEPT ![t] =
         [ c EXCEPT !.pc = "serialize",
                    !.entry = Some(IF a.dtype \in DOMAIN dtype_mapping
                                   THEN dtype_mapping[a.dtype]
                                   ELSE dtype_mapping["float32"]) ] ]
    /\ UNCHANGED << dtype_mapping, shell >>

\* Mutant: the entry is taken out of the shared table while the call uses it
LookupPop(t) ==
    LET c == calls[t]
        a == Get(c.arr)
    IN
    /\ c.pc = "lookup"
    /\ IF a.dtype \in DOMAIN dtype_mapping
       THEN /\ calls' = [ calls EXCEPT ![t] =
                 [ c EXCEPT !.pc = "serialize", !.entry = Some(dtype_mapping[a.dtype]) ] ]
            /\ dtype_mapping' = [ d \in DOMAIN dtype_mapping \ { a.dtype } |-> dtype_mapping[d] ]
       ELSE /\ calls' = [ calls EXCEPT ![t] = Finish(c, Raised(ErrDtype)) ]
            /\ UNCHANGED dtype_mapping
    /\ UNCHANGED shell

\* if input.dtype in dtype_mapping: unpack the entry, else raise
Lookup(t) ==
    LET c == calls[t]
        a == Get(c.arr)
    IN
    /\ c.pc = "lookup"
    /\ calls' = [ calls EXCEPT ![t] =
         IF a.dtype \in DOMAIN dtype_mapping
         THEN [ c EXCEPT !.pc = "serialize", !.entry = Some(dtype_mapping[a.dtype]) ]
         ELSE Finish(c, Raised(ErrDtype)) ]
    /\ UNCHANGED << dtype_mapping, shell >>

\* binary_data = input.astype(target_dtype).flatten().tobytes()
Serialize(t) ==
    LET c == calls[t]
        a == Get(c.arr)
    IN
    /\ c.pc = "serialize"
    /\ calls' = [ calls EXCEPT ![t] =
         [ c EXCEPT !.pc = "shuffle",
                    !.binary_data = ToBytes(Flatten(Astype(a, Get(c.entry).target_dtype))) ] ]
    /\ UNCHANGED << dtype_mapping, shell >>

\* if shuffle is not None: binary_data = the shuffled bytes
Shuffle(t) ==
    LET c == calls[t]
        shuffle == Get(c.entry).shuffle
    IN
    /\ c.pc = "shuffle"
    /\ calls' = [ calls EXCEPT ![t] =
         IF IsNone(shuffle) THEN [ c EXCEPT !.pc = "compress" ]
         ELSE IF ~ReshapeOk(c.binary_data, Get(shuffle)) THEN Finish(c, Raised(ErrReshape))
         ELSE [ c EXCEPT !.pc = "compress",
                         !.binary_data = ShuffleBytes(c.binary_data, Get(shuffle)) ] ]
    /\ UNCHANGED << dtype_mapping, shell >>

\* if compression == "zlib": binary_data = zlib.compress(binary_data, ...)
Compress(t) ==
    LET c == calls[t] IN
    /\ c.pc = "compress"
    /\ calls' = [ calls EXCEPT ![t] =
         IF Get(c.entry).compression = "zlib"
         THEN [ c EXCEPT !.pc = "return", !.binary_data = ZlibCompress(c.binary_data) ]
         ELSE [ c EXCEPT !.pc = "return" ] ]
    /\ UNCHANGED << dtype_mapping, shell >>

\* Mutant: the envelope reports the shape the caller's array had
ReturnSourceShape(t) ==
    LET c == calls[t]
        e == Get(c.entry)
    IN
    /\ c.pc = "return"
    /\ calls' = [ calls EXCEPT ![t] =
         Finish(c, Returned(Some(Envelope(Get(c.input).arr.shape, e.compression, e.shuffle,
                                          e.dtype, B64Encode(c.binary_data))))) ]
    /\ UNCHANGED << dtype_mapping, shell >>

\* return {"shape": ..., "compression": ..., "shuffle": ..., "dtype": ..., "data": ...}
Return(t) ==
    LET c == calls[t]
        e == Get(c.entry)
    IN
    /\ c.pc = "return"
    /\ calls' = [ calls EXCEPT ![t] =
         Finish(c, Returned(Some(Envelope(Get(c.arr).shape, e.compression, e.shuffle,
                                          e.dtype, B64Encode(c.binary_data))))) ]
    /\ UNCHANGED << dtype_mapping, shell >>

Step(t) ==
    \/ Normalize(t)
    \/ Permute(t)
    \/ Lookup(t)
    \/ Serialize(t)
    \/ Shuffle(t)
    \/ Compress(t)
    \/ Return(t)

Next == \E t \in Threads : Step(t)

NoWidget ==
    /\ widget = None
    /\ ctor = None
    /\ sent = << >>
    /\ encodes = 0
    /\ requests = 0
    /\ last_scale = None
    /\ handled = "none"

\* One call, made by thread 1, with any of the arguments
Init ==
    /\ dtype_mapping = DtypeMappingTable
    /\ \E args \in Args :
         calls = [ t \in Threads |-> IF t = 1 THEN NewCall(args) ELSE NoCall ]
    /\ NoWidget

Spec == Init /\ [][Next]_vars

(***************************************************************************)
(* Several calls on separate threads, their statements interleaved.        *)
(***************************************************************************)
ConcArgs ==
    { [input |-> None, permute |-> None] }
    \cup { [input |-> Some([kind |-> "ndarray", arr |-> NdArray(dt, shape, Elements(dt, Size(shape)))]),
            permute |-> p] :
             dt \in { "float16", "complex64" }, shape \in { << 1, 2 >> },
             p \in { None, Some(<< 1, 0 >>), Some(<< 0 >>) } }
    \cup { [input |-> Some([kind |-> "torch", arr |-> NdArray("int8", << 2 >>, Elements("int8", 2))]),
            permute |-> None] }

InitConc ==
    /\ dtype_mapping = DtypeMappingTable
    /\ calls \in [ Threads -> { NewCall(args) : args \in ConcArgs } ]
    /\ NoWidget

SpecConc == InitConc /\ [][Next]_vars

(***************************************************************************)
(* TensorVisualizer                                                        *)
(***************************************************************************)
\* Mutant: the reply carries the envelope under the request's type only
PropReplyUntagged(w) ==
    [ type |-> "prop", valueType |-> "", name |-> "tensor", value |-> w.tensor_data ]

\* The message _handle_custom_msg answers a property read with
PropReply(w) ==
    [ type |-> "prop", valueType |-> "Tensor", name |-> "tensor", value |-> w.tensor_data ]

\* __init__: encode the tensor, reorder the metadata, set the traits, keep the envelope
Construct(args) ==
    LET tensor_data == TensorToJson(args.tensor, args.permute, dtype_mapping)
        permuted(list) == IF IsNone(args.permute) THEN list
                          ELSE ApplyPermute(list, Get(args.permute))
    IN
    /\ IsNone(ctor)
    /\ encodes' = encodes + 1
    /\ IF tensor_data.kind = "raised"
       THEN /\ ctor' = Some([args |-> args, outcome |-> tensor_data])
            /\ UNCHANGED widget
       ELSE /\ ctor' = Some([args |-> args, outcome |-> Returned(None)])
            /\ widget' = Some(
                 [ tensor_data |-> tensor_data.value,
                   names |-> permuted(args.names),
                   labels |-> permuted(args.labels),
                   default_views |-> permuted(args.default_views),
                   scale_domain |-> args.scale_domain,
                   scale_type |-> args.scale_type,
                   scale_scheme |-> args.scale_scheme,
                   current_scale_domain |-> None,
                   current_scale_type |-> None,
                   current_scale_scheme |-> None ])
    /\ UNCHANGED << dtype_mapping, calls, sent, requests, last_scale, handled >>

\* _handle_custom_msg(content, buffers)
HandleCustomMsg(content) ==
    LET w == Get(widget)
        isScale == HasKey(content.type) /\ content.type[1] = Some("scale")
        isTensorRead == /\ HasKey(content.type) /\ content.type[1] = Some("prop")
                        /\ HasKey(content.name) /\ content.name[1] = Some("tensor")
        scale == DictGet(content.scale)
    IN
    /\ ~IsNone(widget)
    /\ isTensorRead => Len(sent) < MaxMsgs
    /\ requests' = IF isTensorRead THEN requests + 1 ELSE requests
    /\ last_scale' = IF isScale THEN Some(content) ELSE last_scale
    /\ IF ~HasKey(content.type)
       THEN \* content["type"] raises KeyError
            /\ handled' = "KeyError"
            /\ UNCHANGED << widget, sent >>
       ELSE IF content.type[1] = Some("prop") /\ ~HasKey(content.name)
       THEN \* content["name"] raises KeyError
            /\ handled' = "KeyError"
            /\ UNCHANGED << widget, sent >>
       ELSE IF isTensorRead
       THEN /\ sent' = Append(sent, PropReply(w))
            /\ handled' = "ok"
            /\ UNCHANGED widget
       ELSE IF isScale
       THEN IF IsNone(scale)
            THEN \* scale.get on None raises AttributeError
                 /\ handled' = "AttributeError"
                 /\ UNCHANGED << widget, sent >>
            ELSE /\ widget' = Some(
                      [ w EXCEPT !.current_scale_domain = DictGet(Get(scale).domain),
                                 !.current_scale_type = DictGet(Get(scale).type),
                                 !.current_scale_scheme = DictGet(Get(scale).scheme) ])
                 /\ handled' = "ok"
                 /\ UNCHANGED sent
       ELSE /\ handled' = "ok"
            /\ UNCHANGED << widget, sent >>
    /\ UNCHANGED << dtype_mapping, calls, ctor, encodes >>

NextWidget ==
    \/ \E args \in CtorArgs : Construct(args)
    \/ \E content \in Messages : HandleCustomMsg(content)

InitWidget ==
    /\ dtype_mapping = DtypeMappingTable
    /\ calls = [ t \in Threads |-> NoCall ]
    /\ NoWidget

SpecWidget == InitWidget /\ [][NextWidget]_vars
(***************************************************************************)
(* The renderer's side of the wire contract, used to state the claims:     *)
(* base64-decode, zlib-inflate, byte-unshuffle, reinterpret as elements.   *)
(***************************************************************************)
B64Value(ch) == (CHOOSE v \in 1..64 : B64Alphabet[v] = ch) - 1

\* The three bytes of a group of four characters ("=" counts as zero bits)
B64DecodeGroup(g) ==
    LET v1 == B64Value(g[1])
        v2 == B64Value(g[2])
        v3 == IF g[3] = "=" THEN 0 ELSE B64Value(g[3])
        v4 == IF g[4] = "=" THEN 0 ELSE B64Value(g[4])
    IN  << v1 * 4 + v2 \div 16, (v2 % 16) * 16 + v3 \div 4, (v3 % 4) * 64 + v4 >>

\* The padding drops the last one or two bytes of the last group
B64Decode(text) ==
    LET ngroups == Len(text) \div 4
        pad == IF ngroups = 0 THEN 0
               ELSE IF text[Len(text) - 1] = "=" THEN 2
               ELSE IF text[Len(text)] = "=" THEN 1
               ELSE 0
        groups == [ k \in 1..ngroups |-> B64DecodeGroup(SubSeq(text, 4 * k - 3, 4 * k)) ]
    IN  [ b \in 1..(3 * ngroups - pad) |-> groups[((b - 1) \div 3) + 1][((b - 1) % 3) + 1] ]

\* Whether z is a well-formed zlib stream of one stored block with a matching checksum
ZlibWellFormed(z) ==
    /\ Len(z) >= 11
    /\ z[1] = 120 /\ (z[1] * 256 + z[2]) % 31 = 0
    /\ z[3] = 1
    /\ z[4] + z[6] = 255 /\ z[5] + z[7] = 255
    /\ Len(z) = 11 + z[4] + 256 * z[5]
    /\ SubSeq(z, Len(z) - 3, Len(z)) = Adler32Bytes(SubSeq(z, 8, Len(z) - 4))

ZlibInflate(z) == SubSeq(z, 8, Len(z) - 4)

\* Inverse transpose: the grid (s, N) read back as (N, s)
UnshuffleBytes(bytes, s) ==
    Flatten(Transpose(NdArray("int8", << s, Len(bytes) \div s >>, bytes), << 1, 0 >>))

Reinterpret(bytes, size) ==
    [ i \in 1..(Len(bytes) \div size) |-> SubSeq(bytes, size * (i - 1) + 1, size * i) ]

\* The elements a renderer reads from an envelope
Decode(env) ==
    LET inflated == ZlibInflate(B64Decode(env.data))
        plain == IF IsNone(env.shuffle) THEN inflated
                 ELSE UnshuffleBytes(inflated, Get(env.shuffle))
    IN  Reinterpret(plain, ItemSize(env.dtype))

(***************************************************************************)
(* The number a floating-point bit pattern denotes: zero, an odd mantissa  *)
(* times a power of two, an infinity or a NaN.                             *)
(***************************************************************************)
RECURSIVE OddForm(_, _)
OddForm(m, x) == IF m % 2 = 0 THEN OddForm(m \div 2, x + 1) ELSE [mant |-> m, exp |-> x]

FloatValue(s, e, m, ebits, fbits) ==
    LET emax == Pow2(ebits) - 1
        bias == Pow2(ebits - 1) - 1
    IN  IF e = emax
        THEN IF m = 0 THEN [cls |-> "inf", sign |-> s, mant |-> 0, exp |-> 0]
             ELSE [cls |-> "nan", sign |-> 0, mant |-> 0, exp |-> 0]
        ELSE IF e = 0 /\ m = 0 THEN [cls |-> "zero", sign |-> s, mant |-> 0, exp |-> 0]
        ELSE LET o == IF e = 0 THEN OddForm(m, 1 - bias - fbits)
                      ELSE OddForm(Pow2(fbits) + m, e - bias - fbits)
             IN  [cls |-> "finite", sign |-> s, mant |-> o.mant, exp |-> o.exp]

HalfValue(el) ==
    FloatValue(el[2] \div 128, (el[2] % 128) \div 4, (el[2] % 4) * 256 + el[1], 5, 10)

SingleValue(el) ==
    FloatValue(el[4] \div 128, (el[4] % 128) * 2 + el[3] \div 128,
               (el[3] % 128) * 65536 + el[2] * 256 + el[1], 8, 23)

\* Whether the decoded element dec (of the wire dtype) is the source element src
SameElement(dec, src, srcDtype) ==
    IF srcDtype = "float16" THEN SingleValue(dec) = HalfValue(src)
    ELSE dec = src

Done(t) == calls[t].pc = "done"
ReturnedEnvelope(t) ==
    Done(t) /\ calls[t].outcome.kind = "returned" /\ ~IsNone(calls[t].outcome.value)
EnvelopeOf(t) == Get(calls[t].outcome.value)
SourceArray(t) == Get(calls[t].input).arr

\* axes[k]: the source axis that becomes axis k (the identity when permute is None)
AxesOf(t) ==
    IF IsNone(calls[t].permute) THEN IdentityAxes(Len(SourceArray(t).shape))
    ELSE Get(calls[t].permute)

\* The multi-index of the source element found at multi-index j of the reordered array
SourceIndex(j, axes) ==
    [ d \in 1..Len(axes) |-> j[CHOOSE k \in 1..Len(axes) : axes[k] = d - 1] ]

(***************************************************************************)
(* C1: decoding the envelope of tensor_to_json(x, p) yields exactly the    *)
(* elements of x with its axes reordered by p, in row-major order of the   *)
(* reordered array: the f-th decoded element is x[i] where i[p[k]] = j[k]  *)
(* and j is the f-th multi-index of the reordered shape.                   *)
(***************************************************************************)
C1_RoundTrip ==
    \A t \in Threads :
        ReturnedEnvelope(t) =>
            LET x == SourceArray(t)
                axes == AxesOf(t)
                newShape == [ k \in 1..Len(axes) |-> x.shape[axes[k] + 1] ]
                wire == B64Decode(EnvelopeOf(t).data)
                dec == Decode(EnvelopeOf(t))
            IN  /\ ZlibWellFormed(wire)
                /\ Len(dec) = Size(x.shape)
                /\ \A f \in 1..Len(dec) :
                     SameElement(dec[f], Item(x, SourceIndex(Unravel(f - 1, newShape), axes)),
                                 x.dtype)

\* A transposed 2x2 float16 array that holds a subnormal number
C1_Witness ==
    \E t \in Threads :
        /\ ReturnedEnvelope(t)
        /\ SourceArray(t).dtype = "float16"
        /\ SourceArray(t).shape = << 2, 2 >>
        /\ calls[t].permute = Some(<< 1, 0 >>)
        /\ Decode(EnvelopeOf(t))[2] # Decode(EnvelopeOf(t))[3]
        /\ \E f \in 1..4 : HalfValue(SourceArray(t).buf[f]).exp < -14

(***************************************************************************)
(* C2: the envelope's shape is the array's shape after the permutation:    *)
(* envelope.shape[k] = original.shape[p[k]], and the original shape when   *)
(* no permutation is given.                                                *)
(***************************************************************************)
C2_Shape ==
    \A t \in Threads :
        ReturnedEnvelope(t) =>
            LET x == SourceArray(t)
                env == EnvelopeOf(t)
            IN  IF IsNone(calls[t].permute) THEN env.shape = x.shape
                ELSE /\ Len(env.shape) = Len(x.shape)
                     /\ \A k \in 1..Len(env.shape) :
                          env.shape[k] = x.shape[Get(calls[t].permute)[k] + 1]

C2_Witness ==
    \E t \in Threads :
        /\ ReturnedEnvelope(t)
        /\ SourceArray(t).shape = << 1, 2 >>
        /\ calls[t].permute = Some(<< 1, 0 >>)
        /\ EnvelopeOf(t).shape = << 2, 1 >>
\* The bytes the call serialized, before any shuffle: the elements of the
\* (reordered) array in row-major order, cast to the transmission dtype
PreShuffle(t) ==
    ToBytes(Flatten(Astype(Get(calls[t].arr), Get(calls[t].entry).target_dtype)))

(***************************************************************************)
(* C3: for every stride s in {2,4,8}, the shuffle puts byte j of element i *)
(* at position j*N + i of a buffer of the same length, and un-shuffling    *)
(* (the inverse transpose) gives the pre-shuffle buffer back.              *)
(***************************************************************************)
C3_Shuffle ==
    \A t \in Threads :
        (calls[t].pc = "compress" /\ ~IsNone(Get(calls[t].entry).shuffle)) =>
            LET s == Get(Get(calls[t].entry).shuffle)
                pre == PreShuffle(t)
                out == calls[t].binary_data
                N == Len(pre) \div s
            IN  /\ s \in { 2, 4, 8 }
                /\ Len(out) = Len(pre)
                /\ \A i \in 0..(N - 1) : \A j \in 0..(s - 1) :
                     out[j * N + i + 1] = pre[i * s + j + 1]
                /\ UnshuffleBytes(out, s) = pre

C3_Witness ==
    \E t \in Threads :
        /\ calls[t].pc = "compress"
        /\ Get(calls[t].entry).shuffle = Some(8)
        /\ Len(calls[t].binary_data) = 32
        /\ calls[t].binary_data # PreShuffle(t)
        /\ calls[t].binary_data[2] = PreShuffle(t)[9]

WireDtypes == { "float32", "float64", "int8", "uint8", "int16", "int32", "int64" }

(***************************************************************************)
(* C4: the envelope's compression is "zlib", its dtype one of the seven    *)
(* wire names, its shuffle the byte width of one transmitted element (2,   *)
(* 4 or 8), except for int8 and uint8, where shuffle is null and the bytes *)
(* reach the compressor unshuffled; float16 is sent as "float32" with      *)
(* shuffle 4; the buffer is a multiple of the stride when the shuffle runs.*)
(***************************************************************************)
C4_Mapping ==
    \A t \in Threads :
        /\ ReturnedEnvelope(t) =>
             LET env == EnvelopeOf(t)
                 src == SourceArray(t).dtype
             IN  /\ src \in SupportedDtypes
                 /\ env.compression = "zlib"
                 /\ env.dtype \in WireDtypes
                 /\ IF src \in { "int8", "uint8" } THEN IsNone(env.shuffle)
                    ELSE /\ env.shuffle = Some(ItemSize(env.dtype))
                         /\ Get(env.shuffle) \in { 2, 4, 8 }
                 /\ src = "float16" => (env.dtype = "float32" /\ env.shuffle = Some(4))
        /\ (calls[t].pc = "shuffle" /\ ~IsNone(Get(calls[t].entry).shuffle)) =>
             Len(calls[t].binary_data) % Get(Get(calls[t].entry).shuffle) = 0
        /\ (calls[t].pc = "compress" /\ Get(calls[t].arr).dtype \in { "int8", "uint8" }) =>
             calls[t].binary_data = PreShuffle(t)

C4_Witness ==
    \E t \in Threads :
        /\ ReturnedEnvelope(t)
        /\ SourceArray(t).dtype = "float16"
        /\ Size(SourceArray(t).shape) = 4
        /\ EnvelopeOf(t).dtype = "float32"
        /\ EnvelopeOf(t).shuffle = Some(4)

(***************************************************************************)
(* C5: a permutation whose length differs from the rank of the normalized  *)
(* tensor makes tensor_to_json fail with the shape-mismatch error, and no  *)
(* envelope is returned, whatever the tensor's element type.               *)
(***************************************************************************)
C5_PermuteLength ==
    \A t \in Threads :
        ( /\ Done(t)
          /\ ~IsNone(calls[t].input)
          /\ IsTensorLike(Get(calls[t].input))
          /\ ~IsNone(calls[t].permute)
          /\ Len(Get(calls[t].permute)) # Len(SourceArray(t).shape) )
        => calls[t].outcome = Raised(ErrPermute)

C5_Witness ==
    \E t \in Threads :
        /\ Done(t)
        /\ ~IsNone(calls[t].input)
        /\ SourceArray(t).dtype = "complex64"
        /\ SourceArray(t).shape = << 2, 2 >>
        /\ calls[t].permute = Some(<< 0 >>)
        /\ calls[t].outcome = Raised(ErrPermute)

\* The array reaches the dtype lookup: it was normalized and reordered
ReachesLookup(t) ==
    /\ ~IsNone(calls[t].input)
    /\ IsTensorLike(Get(calls[t].input))
    /\ \/ IsNone(calls[t].permute)
       \/ TransposeOk(SourceArray(t), Get(calls[t].permute))

CompleteEnvelope(env) ==
    /\ DOMAIN env = { "shape", "compression", "shuffle", "dtype", "data" }
    /\ \A k \in 1..Len(env.shape) : env.shape[k] \in Nat
    /\ env.compression = "zlib"
    /\ env.dtype \in WireDtypes
    /\ Len(env.data) > 0 /\ Len(env.data) % 4 = 0
    /\ ZlibWellFormed(B64Decode(env.data))
    /\ Len(ZlibInflate(B64Decode(env.data))) = Size(env.shape) * ItemSize(env.dtype)

UnsupportedRaises(t) ==
    (Done(t) /\ ReachesLookup(t) /\ SourceArray(t).dtype \notin SupportedDtypes)
        => calls[t].outcome = Raised(ErrDtype)

C9_Reentrant ==
    /\ dtype_mapping = DtypeMappingTable
    /\ \A t \in Threads :
         Done(t) =>
             calls[t].outcome = TensorToJson(calls[t].input, calls[t].permute, DtypeMappingTable)

\* Two calls that both looked up float16; one has returned, the other is mid-way
C9_Witness ==
    \E t, u \in Threads :
        /\ t # u
        /\ ReturnedEnvelope(t)
        /\ SourceArray(t).dtype = "float16"
        /\ calls[u].pc = "shuffle"
        /\ Get(calls[u].arr).dtype = "float16"
        /\ calls[u].permute # calls[t].permute

Reordered(src, dst, p) ==
    IF IsNone(src) THEN IsNone(dst)
    ELSE /\ ~IsNone(dst)
         /\ Len(Get(dst)) = Len(p)
         /\ \A k \in 1..Len(p) :
              IF p[k] + 1 \in DOMAIN Get(src)
              THEN Get(dst)[k] = Get(src)[p[k] + 1]
              ELSE Get(dst)[k] = None

EncodeSucceeds(args) == TensorToJson(args.tensor, args.permute, DtypeMappingTable).kind = "returned"

(***************************************************************************)
(* C7: with a permutation, names, labels and default_views are reordered   *)
(* like the tensor's axes: the constructor does not raise in apply_permute,*)
(* each list gets one entry per permutation position, entry k being        *)
(* list[permute[k]] when the list has that index and null when it is       *)
(* shorter; a list that is None stays None.                                *)
(***************************************************************************)
C7_ApplyPermute ==
    (~IsNone(ctor) /\ ~IsNone(Get(ctor).args.permute) /\ EncodeSucceeds(Get(ctor).args)) =>
        LET args == Get(ctor).args
            p == Get(args.permute)
        IN  /\ Get(ctor).outcome.kind = "returned"
            /\ ~IsNone(widget)
            /\ Reordered(args.names, Get(widget).names, p)
            /\ Reordered(args.labels, Get(widget).labels, p)
            /\ Reordered(args.default_views, Get(widget).default_views, p)

C7_Witness ==
    /\ ~IsNone(widget)
    /\ ~IsNone(Get(ctor).args.tensor)
    /\ Get(ctor).args.permute = Some(<< 1, 0 >>)
    /\ Get(ctor).args.names = Some(<< Some("x") >>)
    /\ Get(widget).names = Some(<< None, Some("x") >>)
    /\ Get(widget).labels = Some(<< Some(<< "y", "b" >>), Some(<< "x", "b" >>) >>)

AnswersEachRequest ==
    ~IsNone(widget) =>
        /\ Len(sent) = requests
        /\ \A i \in 1..Len(sent) :
             /\ sent[i].type = "prop"
             /\ sent[i].valueType = "Tensor"
             /\ sent[i].name = "tensor"
             /\ sent[i].value = TensorToJson(Get(ctor).args.tensor, Get(ctor).args.permute,
                                             DtypeMappingTable).value

(***************************************************************************)
(* C8.  The claim as written: the widget encodes once at construction and  *)
(* again at every property-read request for the tensor, and answers each   *)
(* request with exactly one message tagged valueType "Tensor", name        *)
(* "tensor", whose value is that envelope.                                 *)
(***************************************************************************)
C8_Original ==
    /\ encodes = (IF IsNone(ctor) THEN 0 ELSE 1 + requests)
    /\ AnswersEachRequest

(***************************************************************************)
(* C8, amended: the widget encodes exactly once, at construction, and      *)
(* keeps the envelope; it answers each property-read request for the       *)
(* tensor with exactly one message tagged valueType "Tensor", name         *)
(* "tensor", whose value is the stored envelope, and does not encode again.*)
(***************************************************************************)
C8_EncodeOnce ==
    /\ encodes = (IF IsNone(ctor) THEN 0 ELSE 1)
    /\ AnswersEachRequest
    /\ ~IsNone(widget) =>
         Get(widget).tensor_data = TensorToJson(Get(ctor).args.tensor, Get(ctor).args.permute,
                                                DtypeMappingTable).value

C8_Witness ==
    /\ ~IsNone(widget)
    /\ ~IsNone(Get(widget).tensor_data)
    /\ requests = 2
    /\ Len(sent) = 2
    /\ encodes = 1
    /\ sent[2].value = Get(widget).tensor_data

\* dict.get of a field of the message's scale object, None when there is none
ScaleField(content, field) ==
    IF IsNone(DictGet(content.scale)) THEN None
    ELSE DictGet(Get(DictGet(content.scale))[field])

(***************************************************************************)
(* C10: after any sequence of custom messages the current scale domain,    *)
(* type and scheme are those of the most recent message of type "scale"    *)
(* (null for a field it omits, null before any such message); a scale      *)
(* message sends nothing, and no message changes the envelope, names,      *)
(* labels, default_views or the constructor's scale_domain, scale_type and *)
(* scale_scheme.                                                           *)
(***************************************************************************)
C10_Original ==
    ~IsNone(widget) =>
        LET w == Get(widget)
            args == Get(ctor).args
            p == args.permute
        IN  /\ IF IsNone(last_scale)
               THEN /\ w.current_scale_domain = None
                    /\ w.current_scale_type = None
                    /\ w.current_scale_scheme = None
               ELSE /\ w.current_scale_domain = ScaleField(Get(last_scale), "domain")
                    /\ w.current_scale_type = ScaleField(Get(last_scale), "type")
                    /\ w.current_scale_scheme = ScaleField(Get(last_scale), "scheme")
            /\ Len(sent) = requests
            /\ w.tensor_data = TensorToJson(args.tensor, p, DtypeMappingTable).value
            /\ w.names = (IF IsNone(p) THEN args.names ELSE ApplyPermute(args.names, Get(p)))
            /\ w.labels = (IF IsNone(p) THEN args.labels ELSE ApplyPermute(args.labels, Get(p)))
            /\ w.default_views =
                 (IF IsNone(p) THEN args.default_views ELSE ApplyPermute(args.default_views, Get(p)))
            /\ w.scale_domain = args.scale_domain
            /\ w.scale_type = args.scale_type
            /\ w.scale_scheme = args.scale_scheme
=============================================================================
